---- MODULE Spec2Model ----
(***************************************************************************)
(* Model of src/main.py: the water-pump polling loop of the Pico level     *)
(* switch.  One Tick action is one iteration of the `while True` loop,     *)
(* including every time.time() read it makes, the display_info call and    *)
(* the trailing time.sleep.                                                *)
(*                                                                         *)
(* Representation:                                                         *)
(*   - Python None is the value None (-1); every timestamp is >= 0.        *)
(*   - time.time() is a non-decreasing integer number of seconds.          *)
(*   - voltages are kept in units of 1/(10*65535) V, so that               *)
(*     (raw/65535)*3.3 is raw*33 and 2.1 is 21*65535, exactly.             *)
(*   - litres are kept in units of 1/600 L, so that                        *)
(*     6.4 * (d/60) is 64*d, exactly; PUMP_RATE_LITRES_PER_MIN is in       *)
(*     tenths of a litre per minute.                                       *)
(*   - the duty cycle is kept in hundredths of a percent (the two          *)
(*     decimals the display prints), rounded down.                         *)
(***************************************************************************)
EXTENDS Integers, Sequences, FiniteSets, TLC

\* ---------------------------------------------------------------- bounds
\* the clock never runs past MaxTime (guard of Tick)
MaxTime == 32
\* largest clock advance between the first and the last time.time() read of
\* one tick
MaxDrift == 1
\* largest clock advance during the trailing time.sleep of a tick
MaxSleep == 1

\* the clock of a run that starts in a rest never runs past MaxRestTime
MaxRestTime == 76
\* the last clock value at which a sample can still be low in a run whose
\* samples are high from some tick on
LowUntil == 3
\* the clock of a run whose samples are all low never runs past MaxLowTime
MaxLowTime == 604

\* ------------------------------------------------------------- constants
None == -1
PUMP_RATE_LITRES_PER_MIN == 64
MAX_PUMP_DURATION == 600
REST_DURATION == 60
MIN_RUN_TIME == 10
PAUSE_BETWEEN_RUNS == 10
\* full scale of adc.read_u16()
ADC_FULL_SCALE == 65535
\* the threshold 2.1 of `voltage < 2.1`, in units of 1/(10*65535) V
LOW_VOLTAGE == 21 * ADC_FULL_SCALE

\* values time.time() can have when the module is loaded
StartClocks == {0, 1}
\* values the actuator output can have when Pin(15, Pin.OUT) is constructed
\* without a value argument: the output latch is left as it was
StartPins == {0, 1}
\* raw samples of adc.read_u16(): the two raw values around the 2.1 V
\* threshold (41704 reads as 2.09999 V, 41705 as 2.10005 V)
RawSamples == {41704, 41705}

VARIABLES
    clock,                  \* what time.time() returns now
    start_time,
    pump_control,           \* value of the actuator output pin, 0 or 1
    litres_pumped,
    pump_cycles,
    pump_active_time,
    pump_start_time,
    rest_start_time,
    is_resting,
    last_pump_stop_time,
    voltage,
    snapshot,               \* what the last display_info call rendered
    command,                \* actuator command issued by the last tick
    on_at,                  \* clock at the last pump_control.on()
    off_at,                 \* clock at the last pump_control.off()
    starts,                 \* number of pump_control.on() calls so far
    stops,                  \* number of pump_control.off() calls so far
    durations,              \* the pump_duration of every stop so far, in order
    io,                     \* ADC reads and display_info calls of the last tick
    branch                  \* "init", or the path the last tick took

vars == <<clock, start_time, pump_control, litres_pumped, pump_cycles,
          pump_active_time, pump_start_time, rest_start_time, is_resting,
          last_pump_stop_time, voltage, snapshot, command, on_at, off_at,
          starts, stops, durations, io, branch>>

\* ------------------------------------------------------------ pure parts

\* read_voltage: (raw_value / 65535) * 3.3
read_voltage(raw_value) == raw_value * 33

\* `voltage < 2.1`
VoltageLow(v) == v < LOW_VOLTAGE

\* line 101: current_time - rest_start_time >= REST_DURATION
RestOver(t, rest_start) == t - rest_start >= REST_DURATION

\* RestingAfter with the flag raised whenever a rest is not just over
RestingAfterRaised(resting, t, rest_start) ==
    IF resting /\ RestOver(t, rest_start) THEN FALSE ELSE TRUE

\* lines 100-108: value of is_resting after the resting branch
RestingAfter(resting, t, rest_start) ==
    IF resting /\ RestOver(t, rest_start) THEN FALSE ELSE resting

\* StartGate without the pause test
StartGateNoPause(last_stop, t) == TRUE

\* StartGate with > for >=
StartGateStrict(last_stop, t) ==
    last_stop = None \/ t - last_stop > PAUSE_BETWEEN_RUNS

\* line 129: the pause gate of a start
StartGate(last_stop, t) ==
    last_stop = None \/ t - last_stop >= PAUSE_BETWEEN_RUNS

\* StopGate without the minimum-run-time test
StopGateNoMinRun(pump_start, t) == pump_start # None

\* StopGate with > for >=
StopGateStrict(pump_start, t) ==
    pump_start # None /\ t - pump_start > MIN_RUN_TIME

\* line 139: the minimum-run-time gate of a stop
StopGate(pump_start, t) ==
    pump_start # None /\ t - pump_start >= MIN_RUN_TIME

\* LitresFor with an integer division of the duration by 60
LitresForWholeMinutes(duration) ==
    PUMP_RATE_LITRES_PER_MIN * 60 * (duration \div 60)

\* lines 121 and 144: PUMP_RATE_LITRES_PER_MIN * (pump_duration / 60)
LitresFor(duration) == PUMP_RATE_LITRES_PER_MIN * duration

\* line 118: the pump is on and its start was recorded
PumpIsOn(pin, pump_start) == pin = 1 /\ pump_start # None

\* EstimatedActiveTime showing the current run only
EstimatedActiveTimeThisRun(active, pin, pump_start, tEstimate) ==
    IF PumpIsOn(pin, pump_start) THEN tEstimate - pump_start ELSE active

\* lines 118-124: current_active_time
EstimatedActiveTime(active, pin, pump_start, tEstimate) ==
    IF PumpIsOn(pin, pump_start) THEN active + (tEstimate - pump_start)
                                 ELSE active

\* lines 118-124: current_litres_pumped
EstimatedLitres(litres, pin, pump_start, tEstimate) ==
    IF PumpIsOn(pin, pump_start) THEN litres + LitresFor(tEstimate - pump_start)
                                 ELSE litres

\* lines 127-130: the tick turns the pump on
DoStart(v, resting, last_stop, t, pin) ==
    VoltageLow(v) /\ ~resting /\ StartGate(last_stop, t) /\ pin = 0

\* DoStop with MAX_PUMP_DURATION enforced as a cutoff
DoStopWithCutoff(v, resting, pump_start, t, pin) ==
    /\ pin = 1
    /\ pump_start # None
    /\ \/ t - pump_start >= MAX_PUMP_DURATION
       \/ ~(VoltageLow(v) /\ ~resting) /\ t - pump_start >= MIN_RUN_TIME

\* lines 136-139: the tick turns the pump off
DoStop(v, resting, pump_start, t, pin) ==
    ~(VoltageLow(v) /\ ~resting) /\ pin = 1 /\ StopGate(pump_start, t)

\* CyclesAfter with the increment outside the test of the pin (line 130)
CyclesAfterEveryLowTick(cycles, v, resting, last_stop, t, pin) ==
    IF VoltageLow(v) /\ ~resting /\ StartGate(last_stop, t)
    THEN cycles + 1 ELSE cycles

\* lines 127-134: pump_cycles after the tick
CyclesAfter(cycles, v, resting, last_stop, t, pin) ==
    IF DoStart(v, resting, last_stop, t, pin) THEN cycles + 1 ELSE cycles

\* ActiveTimeAfter committing the running time on every tick of a run
ActiveTimeAfterEveryTick(active, stopping, pump_start, tSwitch) ==
    IF pump_start # None THEN active + (tSwitch - pump_start) ELSE active

\* lines 142-143: pump_active_time after the tick
ActiveTimeAfter(active, stopping, pump_start, tSwitch) ==
    IF stopping THEN active + (tSwitch - pump_start) ELSE active

\* lines 142-144: litres_pumped after the tick
LitresAfter(litres, stopping, pump_start, tSwitch) ==
    IF stopping THEN litres + LitresFor(tSwitch - pump_start) ELSE litres

\* line 76: current_time - start_time if start_time else 1
ElapsedTime(now, started) == IF started # 0 THEN now - started ELSE 1

\* line 77: (current_active_time / elapsed_time) * 100 if elapsed_time > 0 else 0
DutyCycle(active, elapsed) ==
    IF elapsed > 0 THEN (active * 10000) \div elapsed ELSE 0

\* display_info: the values it computes and renders
display_info(active, litres, now, started, cycles, volts) ==
    LET elapsed == ElapsedTime(now, started)
    IN  [elapsed_time    |-> elapsed,
         pump_on_time    |-> active,
         pump_duty_cycle |-> DutyCycle(active, elapsed),
         pump_cycles     |-> cycles,
         volume_pumped   |-> litres,
         voltage         |-> volts]

\* ------------------------------------------------------------------ state

Init ==
    /\ clock \in StartClocks
    /\ start_time = clock
    /\ pump_control \in StartPins
    /\ litres_pumped = 0
    /\ pump_cycles = 0
    /\ pump_active_time = 0
    /\ pump_start_time = None
    /\ rest_start_time = None
    /\ is_resting = FALSE
    /\ last_pump_stop_time = None
    /\ voltage = None
    /\ snapshot = [elapsed_time |-> None, pump_on_time |-> None,
                   pump_duty_cycle |-> None, pump_cycles |-> None,
                   volume_pumped |-> None, voltage |-> None]
    /\ command = "none"
    /\ on_at = None
    /\ off_at = None
    /\ starts = 0
    /\ stops = 0
    /\ durations = <<>>
    /\ io = [reads |-> 0, shows |-> 0]
    /\ branch = "init"

\* lines 110-151: sample, estimate, actuate, display, sleep.
\* t0 is current_time, the sample of line 98; tEstimate the read of line
\* 119; tSwitch the read of line 133 or 142 (the actuator is switched by the
\* statement just before it); tStopped the read of line 146; tDisplay the
\* read of line 75; tEnd the clock when time.sleep returns.
NormalTick(raw_value, resting, t0, tEstimate, tSwitch, tStopped, tDisplay, tEnd) ==
    LET v        == read_voltage(raw_value)
        active   == EstimatedActiveTime(pump_active_time, pump_control,
                                        pump_start_time, tEstimate)
        litres   == EstimatedLitres(litres_pumped, pump_control,
                                    pump_start_time, tEstimate)
        starting == DoStart(v, resting, last_pump_stop_time, t0, pump_control)
        stopping == DoStop(v, resting, pump_start_time, t0, pump_control)
        cycles   == CyclesAfter(pump_cycles, v, resting, last_pump_stop_time,
                                t0, pump_control)
    IN  /\ is_resting' = resting
        /\ voltage' = v
        /\ pump_control' = IF starting THEN 1 ELSE IF stopping THEN 0
                                                  ELSE pump_control
        /\ pump_start_time' = IF starting THEN tSwitch
                              ELSE IF stopping THEN None ELSE pump_start_time
        /\ pump_cycles' = cycles
        /\ pump_active_time' = ActiveTimeAfter(pump_active_time, stopping,
                                               pump_start_time, tSwitch)
        /\ litres_pumped' = LitresAfter(litres_pumped, stopping,
                                        pump_start_time, tSwitch)
        /\ last_pump_stop_time' = IF stopping THEN tStopped
                                              ELSE last_pump_stop_time
        /\ snapshot' = display_info(active, litres, tDisplay, start_time,
                                    cycles, v)
        /\ clock' = tEnd
        /\ command' = IF starting THEN "on" ELSE IF stopping THEN "off"
                                                            ELSE "none"
        /\ on_at' = IF starting THEN tSwitch ELSE on_at
        /\ off_at' = IF stopping THEN tSwitch ELSE off_at
        /\ starts' = IF starting THEN starts + 1 ELSE starts
        /\ stops' = IF stopping THEN stops + 1 ELSE stops
        /\ durations' = IF stopping
                        THEN Append(durations, tSwitch - pump_start_time)
                        ELSE durations
        /\ io' = [reads |-> 1, shows |-> 1]
        /\ branch' = "normal"
        /\ UNCHANGED <<start_time, rest_start_time>>

\* RestingTick without the `continue` of line 108: the tick goes on to
\* sample the sensor and to apply the policy
RestingTickNoContinue(tDisplay, tEnd) ==
    \E raw_value \in RawSamples :
        NormalTick(raw_value, is_resting, clock, clock, clock, clock,
                   tDisplay, tEnd)

\* lines 104-108: still resting; display the committed values, sleep, continue
RestingTick(tDisplay, tEnd) ==
    /\ snapshot' = display_info(pump_active_time, litres_pumped, tDisplay,
                                start_time, pump_cycles, voltage)
    /\ clock' = tEnd
    /\ command' = "none"
    /\ io' = [reads |-> 0, shows |-> 1]
    /\ branch' = "resting"
    /\ UNCHANGED <<start_time, pump_control, litres_pumped, pump_cycles,
                   pump_active_time, pump_start_time, rest_start_time,
                   is_resting, last_pump_stop_time, voltage, on_at, off_at,
                   starts, stops, durations>>

\* one iteration of the `while True` loop (lines 97-151).  a1..a4 are the
\* clock advances before the reads of lines 119, 133/142, 146 and 75; the
\* reads of lines 119 and 146 execute only with the pump on and its start
\* recorded, and a read that does not execute takes no advance of its own.
\* samples are the raw values the ADC can return on this tick and maxTime
\* is the last clock value of the run.
TickWith(samples, maxTime) ==
    \E raw_value \in samples :
    \E a1 \in IF PumpIsOn(pump_control, pump_start_time) THEN 0..MaxDrift ELSE {0} :
    \E a2 \in 0..MaxDrift :
    \E a3 \in IF PumpIsOn(pump_control, pump_start_time) THEN 0..MaxDrift ELSE {0} :
    \E a4 \in 0..MaxDrift :
    \E s \in 0..MaxSleep :
        LET t0        == clock
            tEstimate == t0 + a1
            tSwitch   == tEstimate + a2
            tStopped  == tSwitch + a3
            tDisplay  == tStopped + a4
            tEnd      == tDisplay + s
        IN  /\ a1 + a2 + a3 + a4 <= MaxDrift
            /\ tEnd <= maxTime
            /\ IF is_resting /\ ~RestOver(t0, rest_start_time)
               THEN RestingTick(tDisplay, tEnd)
               ELSE NormalTick(raw_value,
                               RestingAfter(is_resting, t0, rest_start_time),
                               t0, tEstimate, tSwitch, tStopped, tDisplay, tEnd)

\* the loop with any sample on every tick
Tick == TickWith(RawSamples, MaxTime)

Next == Tick

Spec == Init /\ [][Next]_vars

\* ------------------------------------------- the loop with the level low
\* raw samples below the 2.1 V threshold
LowSamples == {41704}

\* the loop with every sample below 2.1
TickLow == TickWith(LowSamples, MaxLowTime)

SpecLow == Init /\ [][TickLow]_vars

\* ------------------------------- the loop with the level high in the end
\* raw samples at or above the 2.1 V threshold
HighSamples == {41705}

\* the loop with any sample up to the clock value LowUntil and every sample
\* at or above 2.1 from then on
TickHighLater ==
    TickWith(IF clock <= LowUntil THEN RawSamples ELSE HighSamples, MaxTime)

\* the `while True` loop never ends and every iteration sleeps, so ticks
\* keep executing and the clock keeps advancing (up to MaxTime here)
SpecHigh ==
    /\ Init
    /\ [][TickHighLater]_vars
    /\ WF_vars(TickHighLater)
    /\ WF_vars(TickHighLater /\ clock' > clock)

\* ---------------------------------------------------- the loop in a rest
\* No statement of the program sets is_resting, so the states in which the
\* resting branch (lines 100-108) runs are drawn here as the data model
\* describes them: is_resting is set and rest_start_time holds the time the
\* rest began, the pump is off, and either no run was made yet or one run of
\* MIN_RUN_TIME seconds ended when the rest began.

\* times at which the rest began
RestStartTimes == {11, 12}

InitResting ==
    /\ start_time \in StartClocks
    /\ rest_start_time \in RestStartTimes
    /\ is_resting = TRUE
    /\ clock = rest_start_time + REST_DURATION - 2
    /\ pump_control = 0
    /\ pump_start_time = None
    /\ pump_cycles \in {0, 1}
    /\ starts = pump_cycles
    /\ stops = pump_cycles
    /\ durations = IF pump_cycles = 1 THEN <<MIN_RUN_TIME>> ELSE <<>>
    /\ pump_active_time = IF pump_cycles = 1 THEN MIN_RUN_TIME ELSE 0
    /\ litres_pumped = LitresFor(pump_active_time)
    /\ on_at = IF pump_cycles = 1 THEN rest_start_time - MIN_RUN_TIME ELSE None
    /\ off_at = IF pump_cycles = 1 THEN rest_start_time ELSE None
    /\ last_pump_stop_time = off_at
    /\ \E raw_value \in RawSamples : voltage = read_voltage(raw_value)
    /\ snapshot = display_info(pump_active_time, litres_pumped, clock,
                               start_time, pump_cycles, voltage)
    /\ command = "none"
    /\ io = [reads |-> 0, shows |-> 0]
    /\ branch = "init"

\* the loop, from a rest on
TickFromRest == TickWith(RawSamples, MaxRestTime)

SpecResting == InitResting /\ [][TickFromRest]_vars

\* ----------------------------------------------------------------- claims

\* sum of a sequence of numbers
RECURSIVE SumSeq(_)
SumSeq(q) == IF q = <<>> THEN 0 ELSE Head(q) + SumSeq(Tail(q))

\* sum of LitresFor over a sequence of durations
RECURSIVE SumLitres(_)
SumLitres(q) ==
    IF q = <<>> THEN 0
    ELSE PUMP_RATE_LITRES_PER_MIN * Head(q) + SumLitres(Tail(q))

\* C1: at every tick boundary pump_start_time is non-null exactly when the
\* actuator output is on.
C1_StartTimeIffRunning ==
    (pump_start_time # None) <=> (pump_control = 1)

\* C2: the pump is turned off only on a tick whose time is at least
\* MIN_RUN_TIME after pump_start_time, so the actuator was on, and the
\* committed duration is, at least MIN_RUN_TIME.
C2_StopOnlyAfterMinRun ==
    [][(pump_control = 1 /\ pump_control' = 0) =>
          /\ pump_start_time # None
          /\ clock - pump_start_time >= MIN_RUN_TIME
          /\ on_at # None
          /\ off_at' - on_at >= MIN_RUN_TIME
          /\ pump_active_time' - pump_active_time >= MIN_RUN_TIME]_vars

\* a stop of a run of exactly MIN_RUN_TIME seconds
C2_Witness ==
    command = "off" /\ stops = 1 /\ pump_active_time = MIN_RUN_TIME

\* C3: the pump is turned on only on a tick whose sample is below 2.1 and
\* where no stop was recorded yet or the tick's time is at least
\* PAUSE_BETWEEN_RUNS after last_pump_stop_time, so the actuator was off for
\* at least PAUSE_BETWEEN_RUNS between two runs.
C3_StartOnlyLowAndPaused ==
    [][(pump_control = 0 /\ pump_control' = 1) =>
          /\ voltage' < LOW_VOLTAGE
          /\ \/ last_pump_stop_time = None
             \/ clock - last_pump_stop_time >= PAUSE_BETWEEN_RUNS
          /\ off_at # None => on_at' - off_at >= PAUSE_BETWEEN_RUNS]_vars

\* the second run has started
C3_Witness ==
    command = "on" /\ starts = 2 /\ last_pump_stop_time # None

\* C4: pump_cycles grows by one on a tick that turns the pump on and is
\* unchanged by every other tick; it equals the number of starts.
C4_CyclesCountStarts ==
    [][/\ pump_cycles' = IF pump_control = 0 /\ pump_control' = 1
                         THEN pump_cycles + 1 ELSE pump_cycles
       /\ pump_cycles' = starts']_vars

\* two starts and a stop between them, then a tick that does not start
C4_Witness ==
    pump_cycles = 2 /\ stops = 1 /\ command = "none" /\ voltage < LOW_VOLTAGE

\* C5: after the stops so far, with committed durations d_1..d_N,
\* pump_active_time is the sum of the d_i and litres_pumped the sum of
\* RATE * d_i / 60, hence litres_pumped * 60 = RATE * pump_active_time
\* (litres in 1/600 L and RATE in 1/10 L per minute).
C5_LitresMatchActiveTime ==
    /\ Len(durations) = stops
    /\ pump_active_time = SumSeq(durations)
    /\ litres_pumped = SumLitres(durations)
    /\ litres_pumped = PUMP_RATE_LITRES_PER_MIN * pump_active_time

\* two completed cycles of different durations
C5_Witness ==
    Len(durations) = 2 /\ durations[1] # durations[2] /\ pump_control = 0

\* C6: every snapshot shows a duty cycle in [0, 100] (hundredths of a
\* percent here), and its active time is non-negative and at most the
\* elapsed time that divides it.
C6_DutyCycleInRange ==
    branch # "init" =>
        /\ snapshot.pump_duty_cycle >= 0
        /\ snapshot.pump_duty_cycle <= 10000
        /\ snapshot.pump_on_time >= 0
        /\ snapshot.pump_on_time <= snapshot.elapsed_time

\* C7: litres_pumped and pump_active_time change only on a tick that turns
\* the pump off, and never decrease.
C7_CommitOnlyOnStop ==
    [][/\ (litres_pumped' # litres_pumped \/ pump_active_time' # pump_active_time)
            => (pump_control = 1 /\ pump_control' = 0)
       /\ litres_pumped' >= litres_pumped
       /\ pump_active_time' >= pump_active_time]_vars

\* a running tick of the second run: the display shows an estimate above
\* the committed values of the first run
C7_Witness ==
    /\ pump_control = 1 /\ command = "none" /\ stops = 1
    /\ snapshot.pump_on_time > pump_active_time
    /\ snapshot.volume_pumped > litres_pumped
    /\ pump_active_time > 0

\* C8: a tick that finds the pump off, is not resting, samples below 2.1
\* and has the start gate satisfied leaves the pump on with its start
\* recorded; with the gate not satisfied it leaves the pump off.
C8_StartResponse ==
    [][(branch' = "normal" /\ ~is_resting' /\ pump_control = 0
            /\ voltage' < LOW_VOLTAGE) =>
          IF \/ last_pump_stop_time = None
             \/ clock - last_pump_stop_time >= PAUSE_BETWEEN_RUNS
          THEN pump_control' = 1 /\ command' = "on"
               /\ pump_start_time' # None /\ pump_start_time' >= clock
          ELSE pump_control' = 0 /\ command' = "none"]_vars

\* a start on the tick exactly PAUSE_BETWEEN_RUNS after the recorded stop
C8_Witness ==
    /\ command = "on" /\ last_pump_stop_time # None
    /\ pump_start_time = last_pump_stop_time + PAUSE_BETWEEN_RUNS

C10_NeverResting ==
    ~is_resting /\ rest_start_time = None /\ branch # "resting"

\* two complete cycles have run, and the loop is not resting
C10_Witness ==
    starts = 2 /\ stops = 2 /\ branch = "normal" /\ ~is_resting

\* C11: a tick that starts in a rest of at least REST_DURATION leaves the
\* rest, clears rest_start_time and goes on to the sensor evaluation, so
\* that rest_start_time is non-null exactly while resting after it too.
C11_RestExitClears ==
    [][(is_resting /\ clock - rest_start_time >= REST_DURATION) =>
          /\ ~is_resting'
          /\ rest_start_time' = None
          /\ (rest_start_time' # None) <=> is_resting'
          /\ io'.reads = 1]_vars

\* C12: a tick that starts in a rest of less than REST_DURATION shows one
\* snapshot of the committed accumulators, does not sample the sensor,
\* issues no actuator command and changes no variable of the controller.
C12_RestingTickFrame ==
    [][(is_resting /\ clock - rest_start_time < REST_DURATION) =>
          /\ io' = [reads |-> 0, shows |-> 1]
          /\ branch' = "resting"
          /\ command' = "none"
          /\ snapshot'.pump_on_time = pump_active_time
          /\ snapshot'.volume_pumped = litres_pumped
          /\ snapshot'.pump_cycles = pump_cycles
          /\ UNCHANGED <<is_resting, pump_control, pump_start_time,
                         last_pump_stop_time, pump_cycles, litres_pumped,
                         pump_active_time, rest_start_time, voltage,
                         start_time>>]_vars

\* a resting tick after a run that committed MIN_RUN_TIME seconds
C12_Witness ==
    /\ branch = "resting" /\ is_resting /\ pump_cycles = 1
    /\ snapshot.pump_on_time = MIN_RUN_TIME
    /\ clock - rest_start_time < REST_DURATION

\* C13: a tick that samples the sensor and finds the pump on displays the
\* committed accumulators plus the time since pump_start_time and the
\* litres pumped in that time; one that finds the pump off displays the
\* committed accumulators.
C13_DisplayEstimates ==
    [][branch' = "normal" =>
          IF pump_control = 1
          THEN /\ pump_start_time # None
               /\ \E elapsed \in (clock - pump_start_time)..(clock' - pump_start_time) :
                     /\ snapshot'.pump_on_time = pump_active_time + elapsed
                     /\ snapshot'.volume_pumped =
                            litres_pumped + PUMP_RATE_LITRES_PER_MIN * elapsed
          ELSE /\ snapshot'.pump_on_time = pump_active_time
               /\ snapshot'.volume_pumped = litres_pumped]_vars

\* C14: every time a tick records is the tick's first sample of the
\* clock: pump_start_time on a start, the committed duration and
\* last_pump_stop_time on a stop.
C14_SingleTimestamp ==
    [][/\ (pump_control = 0 /\ pump_control' = 1) => pump_start_time' = clock
       /\ (pump_control = 1 /\ pump_control' = 0) =>
             /\ pump_active_time' - pump_active_time = clock - pump_start_time
             /\ litres_pumped' - litres_pumped =
                    PUMP_RATE_LITRES_PER_MIN * (clock - pump_start_time)
             /\ last_pump_stop_time' = clock]_vars

\* C17: on and off commands alternate, beginning with on; pump_cycles less
\* the number of stops is 1 with the pump on and 0 with it off; and
\* last_pump_stop_time is null exactly while no stop was made.
C17_Alternation ==
    /\ starts - stops \in {0, 1}
    /\ pump_cycles - stops = IF pump_control = 1 THEN 1 ELSE 0
    /\ (command = "on") => (pump_control = 1 /\ starts = stops + 1)
    /\ (command = "off") => (pump_control = 0 /\ starts = stops)
    /\ (last_pump_stop_time = None) <=> (stops = 0)

\* C18: from one snapshot to the next the displayed active time and litres
\* never decrease, and the snapshot of a tick that stops the pump shows no
\* more than that stop commits.
C18_DisplayNeverDecreases ==
    [][/\ branch # "init" =>
             /\ snapshot'.pump_on_time >= snapshot.pump_on_time
             /\ snapshot'.volume_pumped >= snapshot.volume_pumped
       /\ (pump_control = 1 /\ pump_control' = 0) =>
             /\ snapshot'.pump_on_time <= pump_active_time'
             /\ snapshot'.volume_pumped <= litres_pumped']_vars

\* the second run is stopped on a tick whose snapshot shows less than the
\* stop commits
C18_Witness ==
    /\ command = "off" /\ stops = 2
    /\ snapshot.pump_on_time < pump_active_time
    /\ snapshot.volume_pumped < litres_pumped

\* C15: a tick whose sample is below 2.1 never turns a running pump off,
\* whatever its run time: with every sample low the pump runs on past
\* MAX_PUMP_DURATION.
C15_NoCutoffWhileLow ==
    [][(branch' = "normal" /\ pump_control = 1 /\ voltage' < LOW_VOLTAGE) =>
          /\ pump_control' = 1
          /\ command' = "none"
          /\ pump_start_time' = pump_start_time
          /\ stops' = stops]_vars

\* a pump started by the loop and still on after more than MAX_PUMP_DURATION
C15_Witness ==
    /\ pump_control = 1 /\ pump_start_time # None /\ starts = 1 /\ stops = 0
    /\ voltage < LOW_VOLTAGE
    /\ clock - pump_start_time > MAX_PUMP_DURATION

\* C16: when every sample is at or above 2.1 from some tick on and ticks
\* keep executing with the clock advancing, the pump is eventually off and
\* stays off, from every state the loop can start in.
C16_EventuallyOffForever == <>[](pump_control = 0)

\* C16, in the form a finite run refutes: a run recorded by the loop began
\* at the latest MaxDrift after the last low sample and is stopped by the
\* first tick that begins MIN_RUN_TIME after it, so every tick that begins
\* later than that ends with the pump off.
C16_OffOnceSamplesStayHigh ==
    [][clock > LowUntil + MaxDrift + MIN_RUN_TIME => pump_control' = 0]_vars

====
